---- MODULE Spec2Model ----
(***************************************************************************)
(* A model of the two AbletonMCP client scripts:                           *)
(*   - arrangement_player_example.py: run_arrangement, the scene scheduler *)
(*     (specification Spec, and SpecLive under a position feed that runs   *)
(*     past the last cue), and its send_command;                           *)
(*   - test_ableton_mcp.py: AbletonMCPTester.send_command, and test,       *)
(*     run_all_tests and main (specification SpecHarness; SpecTest for     *)
(*     test called with callbacks of any behaviour).                       *)
(* The two send_command implementations are modelled at the level of the   *)
(* bytes read from the socket (specification SpecClient).                  *)
(***************************************************************************)
EXTENDS Integers, Sequences, FiniteSets, TLC

VARIABLES
    input_arrangement, \* the list passed to run_arrangement
    arrangement,       \* the local `arrangement` (rebound to the sorted list at line 83)
    pc,                \* position of run_arrangement
    current_index,     \* the pending-cue pointer
    current_bar,       \* local of the polling loop (last poll)
    is_playing,        \* local of the polling loop (last poll)
    jump,              \* history: the first poll that passed several pending cues
    cmds,              \* history: the calls of send_command, in order
    failed_call,       \* history: index in cmds of the first failed fire_scene or
                       \* get_song_position call (0: none)
    interrupt_at,      \* history: where a KeyboardInterrupt arrived ("none": never)
    final,             \* how the run ended ("none": still running)
    report,            \* the reports printed by the try block's tail and handler
    \* One call of send_command, at the level of the socket:
    impl,              \* whose send_command: "player" or "harness"
    wire,              \* the bytes the peer sends in answer to the command
    delivered,         \* how many of them recv has returned so far
    buf,               \* b''.join(chunks) / response: the bytes accumulated
    cpc,               \* position of send_command
    sock,              \* the socket s: "none", "created", "connected", "closed"
    ret,               \* what the call returned or raised
    reads,             \* history: the sizes of the chunks recv returned
    ended_by,          \* history: what ended the read loop
    ncalls,            \* history: calls of send_command made so far
    leaked,            \* history: connections of earlier calls never closed
    \* One run of test_ableton_mcp.py:
    hpc,               \* position of main / run_all_tests
    step,              \* the step of run_all_tests to execute next (index in Steps)
    tests_passed,      \* self.tests_passed
    tests_failed,      \* self.tests_failed
    test_results,      \* self.test_results
    last_test,         \* history: what the last call of test() did
    any_false,         \* history: some call of test() returned False
    initial_track_count, \* local of run_all_tests (line 105)
    current_track_count, \* local of run_all_tests (line 360)
    midi_track_idx,    \* local of run_all_tests (line 134)
    devices,           \* local: the devices list of line 258 is not empty
    params,            \* local: len(params) > 1 (line 272)
    returns,           \* return_count > 0 (line 335)
    del_i,             \* the loop variable i of line 364
    tracks,            \* the number of tracks of the remote session
    tracks0,           \* history: that number when the harness started
    created,           \* history: the indices the passed create_midi_track returned
    sent,              \* history: the commands sent, with the track they address
    faults,            \* history: responses that were not the expected one
    summary,           \* print_summary has run
    exit_code          \* the argument of sys.exit (-1: not exited)

playerVars == <<input_arrangement, arrangement, pc, current_index, current_bar,
                is_playing, jump, cmds, failed_call, interrupt_at, final, report>>

clientVars == <<impl, wire, delivered, buf, cpc, sock, ret, reads, ended_by,
                ncalls, leaked>>

harnessVars == <<hpc, step, tests_passed, tests_failed, test_results, last_test,
                 any_false, initial_track_count, current_track_count,
                 midi_track_idx, devices, params, returns, del_i, tracks, tracks0,
                 created, sent, faults, summary, exit_code>>

vars == <<playerVars, clientVars, harnessVars>>

----------------------------------------------------------------------------
(* Bounds of the model *)
MaxCues == 3      \* longest arrangement
MaxBar == 3       \* largest bar number of a cue and of a poll
MaxScene == 1     \* largest scene index
MaxPolls == 3     \* get_song_position calls of one run
MaxReads == 3     \* recv calls of one send_command that return data
MaxCalls == 2     \* consecutive calls of send_command
MaxFaults == 1    \* responses of one harness run that are not the expected one
MaxTracks == 1    \* tracks of the session when the harness starts
MaxTests == 2     \* consecutive calls of test() with callbacks of any behaviour

Bars == 1..MaxBar

RECURSIVE SeqsUpTo(_, _)
SeqsUpTo(S, n) ==
    IF n = 0 THEN {<<>>}
    ELSE LET shorter == SeqsUpTo(S, n - 1)
         IN  shorter \cup {Append(s, x) : s \in {t \in shorter : Len(t) = n - 1}, x \in S}

\* The arrangements of the model: any list of bar numbers, in any order and
\* with repetitions; the i-th cue of the list carries scene (i-1) mod
\* (MaxScene+1), so neighbouring cues differ in their scene and distant ones
\* share it (as in DETROIT_TECHNO_ARRANGEMENT). The label is not modelled.
Arrangements ==
    {[i \in 1..Len(b) |-> [bar |-> b[i], scene |-> (i - 1) % (MaxScene + 1)]] :
        b \in SeqsUpTo(Bars, MaxCues)}

----------------------------------------------------------------------------
(* sorted(arrangement, key=lambda x: x[0]): a stable sort on the bar number *)

\* c goes after every element whose bar is <= c.bar (s is sorted)
InsertByBar(c, s) ==
    LET n == Cardinality({i \in 1..Len(s) : s[i].bar <= c.bar})
    IN  SubSeq(s, 1, n) \o <<c>> \o SubSeq(s, n + 1, Len(s))

Unsorted(a) == a
RECURSIVE SortedByBar(_)
SortedByBar(a) ==
    IF a = <<>> THEN <<>>
    ELSE InsertByBar(a[Len(a)], SortedByBar(SubSeq(a, 1, Len(a) - 1)))

----------------------------------------------------------------------------
(* What a call of send_command does for the player: it returns the parsed   *)
(* response (whose status may be "success" or "error"), or raises (socket   *)
(* errors, JSONDecodeError), or is cut by a KeyboardInterrupt.              *)
Returned == {"success", "error"}
Outcomes == Returned \cup {"raised", "interrupted"}

\* An entry of cmds: the command, the scene index it carries (-1: none), the
\* position in the sorted arrangement of the cue it fires (0: none) and, for a
\* get_song_position that returned, the is_playing the loop read from it
Call(type, scene, cue) ==
    [type |-> type, scene |-> scene, cue |-> cue, playing |-> "n/a"]
PollCall(playing) ==
    [type |-> "get_song_position", scene |-> -1, cue |-> 0,
     playing |-> IF playing THEN "yes" ELSE "no"]

\* The first failed call: a call that raised or was answered with status "error"
Failed(o, at) == IF failed_call = 0 /\ o \in {"error", "raised"} THEN at ELSE failed_call

\* A key of a response's result: <<v>> when present, <<>> when absent
NoKey == <<>>
Key(V) == {<<v>> : v \in V} \cup {NoKey}

\* dict.get(key, default)
Get(value, default) == IF value = NoKey THEN default ELSE value[1]

\* result.get('result', result): an error response has no 'result', so the
\* response itself is returned, and it has neither current_bar nor is_playing
ResultField(status, value) == IF status = "error" THEN NoKey ELSE value

NPolls == Cardinality({i \in 1..Len(cmds) : cmds[i].type = "get_song_position"})

----------------------------------------------------------------------------
PlayerInit ==
    /\ input_arrangement \in Arrangements
    /\ arrangement = input_arrangement
    /\ pc = "NotStarted"
    /\ current_index = 0
    /\ current_bar = 0
    /\ is_playing = FALSE
    /\ jump = [idx |-> 0, at |-> 0]
    /\ cmds = <<>>
    /\ failed_call = 0
    /\ interrupt_at = "none"
    /\ final = "none"
    /\ report = {}

\* An exception other than KeyboardInterrupt leaves run_arrangement and is
\* caught by the script's `except Exception`.
Raise ==
    /\ pc' = "exited"
    /\ final' = "Error"

\* A KeyboardInterrupt outside the try block leaves the process.
Kill(where) ==
    /\ pc' = "exited"
    /\ final' = "Killed"
    /\ interrupt_at' = where

\* lines 83-88: sort, start_playback(), sleep
Start ==
    /\ UNCHANGED <<clientVars, harnessVars>>
    /\ pc = "NotStarted"
    /\ arrangement' = SortedByBar(arrangement)
    /\ \E o \in Outcomes :
        /\ cmds' = Append(cmds, Call("start_playback", -1, 0))
        /\ CASE o \in Returned -> pc' = "settle" /\ UNCHANGED <<final, interrupt_at>>
             [] o = "raised" -> Raise /\ UNCHANGED interrupt_at
             [] o = "interrupted" -> Kill("start_playback")
    /\ UNCHANGED <<input_arrangement, current_index, current_bar, is_playing,
                   jump, failed_call, report>>

\* line 91: arrangement[0]
LastCue(arr) == arr[Len(arr)]
FirstCue(arr) == arr[1]

\* lines 91-97: fire the first cue, fired = {0}, current_index = 1
FireFirst ==
    /\ UNCHANGED <<clientVars, harnessVars>>
    /\ pc = "settle"
    /\ IF arrangement = <<>>
       THEN \* arrangement[0] raises IndexError
            /\ Raise
            /\ UNCHANGED <<cmds, failed_call, current_index, interrupt_at>>
       ELSE \E o \in Outcomes :
            /\ cmds' = Append(cmds, Call("fire_scene", FirstCue(arrangement).scene, 1))
            /\ failed_call' = Failed(o, Len(cmds'))
            /\ CASE o \in Returned ->
                      /\ pc' = "loop"
                      /\ current_index' = 1
                      /\ UNCHANGED <<final, interrupt_at>>
                 [] o = "raised" -> Raise /\ UNCHANGED <<current_index, interrupt_at>>
                 [] o = "interrupted" -> Kill("fire_first") /\ UNCHANGED current_index
    /\ UNCHANGED <<input_arrangement, arrangement, current_bar, is_playing,
                   jump, report>>

\* The cue the loop fires when the polled bar has reached the pending cue
\* (line 112: arrangement[current_index]), and the pointer after it (line 117).
\* (current_index counts from 0 as in the source; sequences count from 1.)
CueToFireLatestDue(arr, idx, bar) ==
    CHOOSE j \in (idx + 1)..Len(arr) :
        /\ arr[j].bar <= bar
        /\ \A k \in (j + 1)..Len(arr) : arr[k].bar > bar
CueToFire(arr, idx, bar) == idx + 1
AdvanceIndexByTwo(idx) == idx + 2
AdvanceIndex(idx) == idx + 1

\* History: a poll that, with playback running, goes from before the bar of the
\* pending cue to the bar of the cue after it or beyond (two pending cues with
\* different bars become due in one poll).
IsJump(arr, idx, before, bar) ==
    /\ idx + 2 <= Len(arr)
    /\ before < arr[idx + 1].bar
    /\ arr[idx + 1].bar < arr[idx + 2].bar
    /\ bar >= arr[idx + 2].bar

\* line 107: `if not is_playing:` leaves the loop
BreakNever(playing) == FALSE
Break(playing) == ~playing

\* lines 102-109: the while test, get_position(), the is_playing test
Poll ==
    /\ UNCHANGED <<clientVars, harnessVars>>
    /\ pc = "loop"
    /\ current_index < Len(arrangement)
    /\ NPolls < MaxPolls
    /\ \E o \in Outcomes :
        /\ failed_call' = Failed(o, Len(cmds) + 1)
        /\ CASE o \in Returned ->
                  \E bar \in Key(0..MaxBar), playing \in Key(BOOLEAN) :
                      /\ current_bar' = Get(ResultField(o, bar), 0)
                      /\ is_playing' = Get(ResultField(o, playing), FALSE)
                      /\ cmds' = Append(cmds, PollCall(is_playing'))
                      /\ IF ~Break(is_playing')
                         THEN /\ pc' = "polled"
                              /\ UNCHANGED <<final, report>>
                         ELSE \* break, then the statements after the loop
                              /\ pc' = "exited"
                              /\ final' = "Stopped"
                              /\ report' = report \cup {"stopped", "complete"}
                      /\ jump' = IF /\ jump.idx = 0
                                    /\ NPolls > 0
                                    /\ is_playing'
                                    /\ IsJump(arrangement, current_index, current_bar,
                                              current_bar')
                                 THEN [idx |-> current_index + 1, at |-> Len(cmds')]
                                 ELSE jump
                      /\ UNCHANGED interrupt_at
             [] o = "raised" ->
                  /\ cmds' = Append(cmds, Call("get_song_position", -1, 0))
                  /\ Raise
                  /\ UNCHANGED <<current_bar, is_playing, jump, report, interrupt_at>>
             [] o = "interrupted" ->
                  /\ cmds' = Append(cmds, Call("get_song_position", -1, 0))
                  /\ pc' = "handler"
                  /\ interrupt_at' = "get_position"
                  /\ UNCHANGED <<current_bar, is_playing, jump, report, final>>
    /\ UNCHANGED <<input_arrangement, arrangement, current_index>>

\* lines 112-123: fire the pending cue when its bar is reached, then sleep
FireDue ==
    /\ UNCHANGED <<clientVars, harnessVars>>
    /\ pc = "polled"
    /\ IF current_bar >= arrangement[current_index + 1].bar
       THEN \E o \in Outcomes :
            LET cue == CueToFire(arrangement, current_index, current_bar) IN
            /\ cmds' = Append(cmds, Call("fire_scene", arrangement[cue].scene, cue))
            /\ failed_call' = Failed(o, Len(cmds'))
            /\ CASE o \in Returned ->
                      /\ current_index' = AdvanceIndex(current_index)
                      /\ pc' = "loop"
                      /\ UNCHANGED <<final, interrupt_at>>
                 [] o = "raised" -> Raise /\ UNCHANGED <<current_index, interrupt_at>>
                 [] o = "interrupted" ->
                      /\ pc' = "handler"
                      /\ interrupt_at' = "fire_scene"
                      /\ UNCHANGED <<current_index, final>>
       ELSE /\ pc' = "loop"
            /\ UNCHANGED <<cmds, failed_call, current_index, final, interrupt_at>>
    /\ UNCHANGED <<input_arrangement, arrangement, current_bar, is_playing, jump, report>>

\* lines 102, 125-126: the while condition is false, the completion report
Complete ==
    /\ UNCHANGED <<clientVars, harnessVars>>
    /\ pc = "loop"
    /\ current_index >= Len(arrangement)
    /\ pc' = "exited"
    /\ final' = "Complete"
    /\ report' = report \cup {"complete"}
    /\ UNCHANGED <<input_arrangement, arrangement, current_index, current_bar,
                   is_playing, jump, cmds, failed_call, interrupt_at>>

\* A KeyboardInterrupt between two calls: inside the try block (lines 101-126)
\* it reaches the handler, before it (lines 73-97) it leaves run_arrangement.
Interrupt ==
    /\ UNCHANGED <<clientVars, harnessVars>>
    /\ pc \in {"NotStarted", "settle", "loop", "polled"}
    /\ IF pc \in {"loop", "polled"}
       THEN /\ pc' = "handler"
            /\ interrupt_at' = pc
            /\ UNCHANGED final
       ELSE Kill(pc)
    /\ UNCHANGED <<input_arrangement, arrangement, current_index, current_bar,
                   is_playing, jump, cmds, failed_call, report>>

\* lines 128-130: the handler reports and calls stop_playback()
Handler ==
    /\ UNCHANGED <<clientVars, harnessVars>>
    /\ pc = "handler"
    /\ report' = report \cup {"interrupted"}
    /\ \E o \in Returned \cup {"raised"} :
        /\ cmds' = Append(cmds, Call("stop_playback", -1, 0))
        /\ pc' = "exited"
        /\ final' = IF o = "raised" THEN "Error" ELSE "Interrupted"
    /\ UNCHANGED <<input_arrangement, arrangement, current_index, current_bar,
                   is_playing, jump, failed_call, interrupt_at>>

PlayerNext ==
    \/ Start
    \/ FireFirst
    \/ Poll
    \/ FireDue
    \/ Complete
    \/ Interrupt
    \/ Handler

\* No run of run_arrangement (the state of the player in SpecClient)
PlayerIdle ==
    /\ input_arrangement = <<>>
    /\ arrangement = <<>>
    /\ pc = "idle"
    /\ current_index = 0
    /\ current_bar = 0
    /\ is_playing = FALSE
    /\ jump = [idx |-> 0, at |-> 0]
    /\ cmds = <<>>
    /\ failed_call = 0
    /\ interrupt_at = "none"
    /\ final = "none"
    /\ report = {}

----------------------------------------------------------------------------
(* bytes.decode(): strict UTF-8. Bytes are 0..255, a text is a sequence of  *)
(* code points.                                                             *)

IsCont(x) == x >= 128 /\ x <= 191

\* The length of the sequence a lead byte starts (0: not a lead byte)
Utf8Len(b0) ==
    IF b0 < 128 THEN 1
    ELSE IF b0 >= 194 /\ b0 <= 223 THEN 2
    ELSE IF b0 >= 224 /\ b0 <= 239 THEN 3
    ELSE IF b0 >= 240 /\ b0 <= 244 THEN 4
    ELSE 0

\* The second byte a lead byte admits (no overlong forms, no surrogates)
SecondOk(b0, b1) ==
    CASE b0 = 224 -> b1 >= 160 /\ b1 <= 191
      [] b0 = 237 -> b1 >= 128 /\ b1 <= 159
      [] b0 = 240 -> b1 >= 144 /\ b1 <= 191
      [] b0 = 244 -> b1 >= 128 /\ b1 <= 143
      [] OTHER -> IsCont(b1)

CodePoint(b, i, n) ==
    CASE n = 1 -> b[i]
      [] n = 2 -> (b[i] - 192) * 64 + (b[i + 1] - 128)
      [] n = 3 -> (b[i] - 224) * 4096 + (b[i + 1] - 128) * 64 + (b[i + 2] - 128)
      [] n = 4 -> (b[i] - 240) * 262144 + (b[i + 1] - 128) * 4096
                  + (b[i + 2] - 128) * 64 + (b[i + 3] - 128)

RECURSIVE Utf8DecodeFrom(_, _, _)
Utf8DecodeFrom(b, i, acc) ==
    IF i > Len(b) THEN [ok |-> TRUE, text |-> acc]
    ELSE LET n == Utf8Len(b[i]) IN
         IF \/ n = 0
            \/ i + n - 1 > Len(b)                       \* unexpected end of data
            \/ (n >= 2 /\ ~SecondOk(b[i], b[i + 1]))
            \/ \E k \in 2..(n - 1) : ~IsCont(b[i + k])
         THEN [ok |-> FALSE, text |-> <<>>]             \* UnicodeDecodeError
         ELSE Utf8DecodeFrom(b, i + n, Append(acc, CodePoint(b, i, n)))

Utf8Decode(b) == Utf8DecodeFrom(b, 1, <<>>)

----------------------------------------------------------------------------
(* json.loads() on a text: objects, strings and non-negative integers, with *)
(* whitespace between tokens. Arrays, literals, fractions, exponents, signs *)
(* and \u escapes are not in the alphabet of the model's responses.         *)

JNum(n) == <<"num", n>>
JStr(text) == <<"str", text>>
JObj(members) == <<"obj", members>>

WS == {32, 9, 10, 13}
ParseError == [ok |-> FALSE, val |-> <<>>, pos |-> 0]
Parsed(v, p) == [ok |-> TRUE, val |-> v, pos |-> p]

RECURSIVE SkipWs(_, _)
SkipWs(t, i) == IF i <= Len(t) /\ t[i] \in WS THEN SkipWs(t, i + 1) ELSE i

\* The character a one-letter escape stands for (0: not an escape)
Unescape(c) ==
    CASE c = 34 -> 34 [] c = 92 -> 92 [] c = 47 -> 47 [] c = 98 -> 8
      [] c = 102 -> 12 [] c = 110 -> 10 [] c = 114 -> 13 [] c = 116 -> 9
      [] OTHER -> 0

\* py_scanstring, strict: from the character after the opening quote
RECURSIVE ScanString(_, _, _)
ScanString(t, i, acc) ==
    IF i > Len(t) THEN ParseError                       \* unterminated string
    ELSE IF t[i] = 34 THEN Parsed(acc, i + 1)
    ELSE IF t[i] < 32 THEN ParseError                   \* control character
    ELSE IF t[i] = 92
         THEN IF i + 1 > Len(t) \/ Unescape(t[i + 1]) = 0 THEN ParseError
              ELSE ScanString(t, i + 2, Append(acc, Unescape(t[i + 1])))
    ELSE ScanString(t, i + 1, Append(acc, t[i]))

RECURSIVE ScanDigits(_, _, _)
ScanDigits(t, i, n) ==
    IF i <= Len(t) /\ t[i] >= 48 /\ t[i] <= 57
    THEN ScanDigits(t, i + 1, n * 10 + (t[i] - 48))
    ELSE Parsed(JNum(n), i)

\* NUMBER_RE: 0 | [1-9][0-9]*
ScanNumber(t, i) ==
    IF t[i] = 48 THEN Parsed(JNum(0), i + 1) ELSE ScanDigits(t, i, 0)

RECURSIVE ScanOnce(_, _), ScanMembers(_, _, _)

\* JSONObject: from the character after the opening brace
ScanObject(t, i) ==
    LET j == SkipWs(t, i) IN
    IF j > Len(t) THEN ParseError
    ELSE IF t[j] = 125 THEN Parsed(JObj(<<>>), j + 1)
    ELSE IF t[j] # 34 THEN ParseError
    ELSE ScanMembers(t, j + 1, <<>>)

\* one "key": value pair, from the character after the key's opening quote;
\* a key that occurs again replaces the earlier value
ScanMembers(t, i, members) ==
    LET key == ScanString(t, i, <<>>) IN
    IF ~key.ok THEN ParseError ELSE
    LET colon == SkipWs(t, key.pos) IN
    IF colon > Len(t) \/ t[colon] # 58 THEN ParseError ELSE
    LET value == ScanOnce(t, SkipWs(t, colon + 1)) IN
    IF ~value.ok THEN ParseError ELSE
    LET after == SkipWs(t, value.pos)
        now == (key.val :> value.val) @@ members
    IN
    IF after > Len(t) THEN ParseError
    ELSE IF t[after] = 125 THEN Parsed(JObj(now), after + 1)
    ELSE IF t[after] # 44 THEN ParseError
    ELSE LET next == SkipWs(t, after + 1) IN
         IF next > Len(t) \/ t[next] # 34 THEN ParseError
         ELSE ScanMembers(t, next + 1, now)

\* scan_once
ScanOnce(t, i) ==
    IF i > Len(t) THEN ParseError
    ELSE IF t[i] = 34
         THEN LET str == ScanString(t, i + 1, <<>>) IN
              IF str.ok THEN Parsed(JStr(str.val), str.pos) ELSE ParseError
    ELSE IF t[i] = 123 THEN ScanObject(t, i + 1)
    ELSE IF t[i] >= 48 /\ t[i] <= 57 THEN ScanNumber(t, i)
    ELSE ParseError

\* JSONDecoder.decode: one value, whitespace around it, nothing after it
JsonLoads(t) ==
    LET value == ScanOnce(t, SkipWs(t, 1)) IN
    IF ~value.ok THEN ParseError
    ELSE IF SkipWs(t, value.pos) # Len(t) + 1 THEN ParseError      \* Extra data
    ELSE value

\* json.loads(b.decode()): the value, or the exception raised
Loads(b) ==
    LET text == Utf8Decode(b) IN
    IF ~text.ok THEN [kind |-> "raise", value |-> <<"exc", "UnicodeDecodeError">>]
    ELSE LET parsed == JsonLoads(text.text) IN
         IF ~parsed.ok THEN [kind |-> "raise", value |-> <<"exc", "JSONDecodeError">>]
         ELSE [kind |-> "return", value |-> parsed.val]

----------------------------------------------------------------------------
(* send_command of the player and AbletonMCPTester.send_command *)

\* The responses of the model, as bytes
Payloads ==
    { <<123, 125>>,                                       \* {}
      <<123, 125, 10>>,                                   \* {} and a newline
      <<123, 34, 97, 34, 58, 49, 125>>,                   \* {"a":1}
      <<123, 34, 97, 34, 58, 32, 49, 50, 125>>,           \* {"a": 12}
      <<123, 34, 97, 34, 58, 34, 195, 169, 34, 125>>,     \* {"a":"e-acute"}
      <<123, 34, 97, 34, 58, 123, 125, 125>>,             \* {"a":{}}
      <<123, 125, 123, 125>>,                             \* {}{}
      <<49, 50>>,                                         \* 12
      <<97, 125>>,                                        \* a}
      <<>> }                                              \* nothing

\* recv(65536) and recv(8192)
RecvSizePlayer == 65536
RecvSizeHarness == 8192
RecvSize(i) == IF i = "player" THEN RecvSizePlayer ELSE RecvSizeHarness

Raises(exc) == [kind |-> "raise", value |-> <<"exc", exc>>]
\* {"status": "error", "message": str(e)}
ErrorResponse(exc) == [kind |-> "return", value |-> <<"error_response", exc>>]

\* The harness returns every exception as an error response (lines 46-47);
\* the player's send_command catches none but those of its read loop.
Fails(i, exc) == IF i = "harness" THEN ErrorResponse(exc) ELSE Raises(exc)

ClientIdle ==
    /\ impl = "none"
    /\ wire = <<>>
    /\ delivered = 0
    /\ buf = <<>>
    /\ cpc = "idle"
    /\ sock = "none"
    /\ ret = [kind |-> "none", value |-> <<>>]
    /\ reads = <<>>
    /\ ended_by = "none"
    /\ ncalls = 0
    /\ leaked = 0

ClientInit ==
    /\ impl \in {"player", "harness"}
    /\ wire \in Payloads
    /\ delivered = 0
    /\ buf = <<>>
    /\ cpc = "call"
    /\ sock = "none"
    /\ ret = [kind |-> "none", value |-> <<>>]
    /\ reads = <<>>
    /\ ended_by = "none"
    /\ ncalls = 1
    /\ leaked = 0

Done(result) ==
    /\ ret' = result
    /\ cpc' = IF result.kind = "return" THEN "returned" ELSE "raised"

\* player lines 22-25, harness lines 24-29: socket(), connect(), sendall()
Connect ==
    /\ UNCHANGED <<playerVars, harnessVars>>
    /\ cpc = "call"
    /\ \E o \in {"ok", "connect fails", "sendall fails"} :
        CASE o = "ok" ->
                /\ sock' = "connected"
                /\ cpc' = "recv"
                /\ UNCHANGED <<ret, ended_by>>
          [] o = "connect fails" ->
                /\ sock' = "created"
                /\ ended_by' = "connect"
                /\ Done(Fails(impl, "ConnectionRefusedError"))
          [] o = "sendall fails" ->
                /\ sock' = "connected"
                /\ ended_by' = "sendall"
                /\ Done(Fails(impl, "BrokenPipeError"))
    /\ UNCHANGED <<impl, wire, delivered, buf, reads, ncalls, leaked>>

\* The parse attempted after a read (player lines 33-38, harness lines 38-42):
\* "again" when JSONDecodeError is caught and the loop continues
TryParse(b) ==
    LET r == Loads(b) IN
    IF r.kind = "raise" /\ r.value[2] = "JSONDecodeError"
    THEN [kind |-> "again", value |-> <<>>]
    ELSE r

\* recv returns n bytes: append, try to parse
RecvData ==
    /\ UNCHANGED <<playerVars, harnessVars>>
    /\ cpc = "recv"
    /\ Len(reads) < MaxReads
    /\ \E n \in 1..(Len(wire) - delivered) :
        /\ n <= RecvSize(impl)
        /\ delivered' = delivered + n
        /\ buf' = buf \o SubSeq(wire, delivered + 1, delivered + n)
        /\ reads' = Append(reads, n)
        /\ LET r == TryParse(buf') IN
           CASE r.kind = "again" -> UNCHANGED <<cpc, sock, ret, ended_by>>
             [] r.kind = "return" ->
                   \* player lines 35-36, harness lines 40, 44-45
                   /\ sock' = "closed"
                   /\ ended_by' = "data"
                   /\ Done(r)
             [] r.kind = "raise" ->
                   \* UnicodeDecodeError is no JSONDecodeError: it leaves the
                   \* loop past s.close()
                   /\ ended_by' = "data"
                   /\ Done(Fails(impl, r.value[2]))
                   /\ UNCHANGED sock
    /\ UNCHANGED <<impl, wire, ncalls, leaked>>

\* The statements after the read loop. Player lines 41-42: s.close() and a
\* last json.loads of what has accumulated. Harness lines 44-45: s.close() and
\* `return result`, where result was never bound: UnboundLocalError, caught by
\* the harness's own except clause.
AfterLoopLenient(i, b) == [kind |-> "return", value |-> JObj(<<>>)]
AfterLoop(i, b) ==
    IF i = "player" THEN Loads(b) ELSE ErrorResponse("UnboundLocalError")

\* recv returns b'': the peer has closed the connection
RecvClosed ==
    /\ UNCHANGED <<playerVars, harnessVars>>
    /\ cpc = "recv"
    /\ sock' = "closed"
    /\ ended_by' = "closed"
    /\ Done(AfterLoop(impl, buf))
    /\ UNCHANGED <<impl, wire, delivered, buf, reads, ncalls, leaked>>

\* recv raises socket.timeout. Player lines 39-42: break, then as after a
\* close. Harness: no handler in the loop, lines 46-47 return the error.
RecvTimeout ==
    /\ UNCHANGED <<playerVars, harnessVars>>
    /\ cpc = "recv"
    /\ ended_by' = "timeout"
    /\ IF impl = "player"
       THEN /\ sock' = "closed"
            /\ Done(AfterLoop(impl, buf))
       ELSE /\ Done(ErrorResponse("timeout"))
            /\ UNCHANGED sock
    /\ UNCHANGED <<impl, wire, delivered, buf, reads, ncalls, leaked>>

\* recv raises another OSError (connection reset)
RecvError ==
    /\ UNCHANGED <<playerVars, harnessVars>>
    /\ cpc = "recv"
    /\ ended_by' = "error"
    /\ Done(Fails(impl, "ConnectionResetError"))
    /\ UNCHANGED <<impl, wire, delivered, buf, reads, sock, ncalls, leaked>>

\* The caller got a value and sends its next command: a new call, a new socket
NextCall ==
    /\ UNCHANGED <<playerVars, harnessVars>>
    /\ cpc = "returned"
    /\ ncalls < MaxCalls
    /\ ncalls' = ncalls + 1
    /\ leaked' = leaked + (IF sock = "connected" THEN 1 ELSE 0)
    /\ wire' \in Payloads
    /\ delivered' = 0
    /\ buf' = <<>>
    /\ cpc' = "call"
    /\ sock' = "none"
    /\ ret' = [kind |-> "none", value |-> <<>>]
    /\ reads' = <<>>
    /\ ended_by' = "none"
    /\ UNCHANGED impl

ClientNext ==
    \/ Connect
    \/ RecvData
    \/ RecvClosed
    \/ RecvTimeout
    \/ RecvError
    \/ NextCall

----------------------------------------------------------------------------
(* test_ableton_mcp.py: AbletonMCPTester.test, run_all_tests and main.      *)
(* A response of the remote session is one of three kinds: "ok" (status     *)
(* success and the result the caller looks for), "nokey" (status success    *)
(* without that result) and "error" (status error, which is also what the   *)
(* harness's send_command returns for every failure of the transport).      *)

Kinds == {"ok", "nokey", "error"}

\* result.get('status')
Status(kind) == IF kind = "error" THEN "error" ELSE "success"

\* The value of a check_func of run_all_tests on a response: each of them
\* looks for one key or one value of the result.
CheckOk(kind) == kind = "ok"

\* No call of test() yet
NoTest == [name |-> "", status |-> "none", has_check |-> FALSE,
           check_ok |-> FALSE, has_cleanup |-> FALSE, check_calls |-> 0, cleanup_calls |-> 0,
           verdict |-> "none", returned |-> TRUE]

VerdictIgnoringStatus(status, has_check, check_ok) ==
    IF has_check /\ ~check_ok THEN "failed" ELSE "passed"

\* test(): what it decides from the response
Verdict(status, has_check, check_ok) ==
    IF status = "error" THEN "failed"
    ELSE IF has_check /\ ~check_ok THEN "failed"
    ELSE "passed"

\* test(): the 'error' of the entry appended to test_results
ErrorText(status, has_check, check_ok) ==
    IF status = "error" THEN "message"
    ELSE IF has_check /\ ~check_ok THEN "Check function failed"
    ELSE ""

\* test(): the callbacks it calls, and what it returns
TestCall(name, status, has_check, check_ok, has_cleanup) ==
    LET v == Verdict(status, has_check, check_ok) IN
    [name |-> name, status |-> status, has_check |-> has_check,
     check_ok |-> check_ok, has_cleanup |-> has_cleanup,
     check_calls |-> IF status # "error" /\ has_check THEN 1 ELSE 0,
     cleanup_calls |-> IF v = "passed" /\ has_cleanup THEN 1 ELSE 0,
     verdict |-> v, returned |-> (v = "passed")]

\* test(): the counters and the entry of test_results
Record(name, arg, status, has_check, check_ok) ==
    LET v == Verdict(status, has_check, check_ok) IN
    /\ tests_passed' = IF v = "passed" THEN tests_passed + 1 ELSE tests_passed
    /\ tests_failed' = IF v = "failed" THEN tests_failed + 1 ELSE tests_failed
    /\ test_results' = Append(test_results,
                              [name |-> name, arg |-> arg, status |-> v,
                               error |-> ErrorText(status, has_check, check_ok)])
    /\ any_false' = (any_false \/ v = "failed")

\* A call self.test(name, command, params, check_func, cleanup_func)
T(name, command, check, cleanup, target, guard) ==
    [kind |-> "test", name |-> name, command |-> command, check |-> check,
     cleanup |-> cleanup, target |-> target, guard |-> guard]

\* A call self.send_command(command, params) of run_all_tests itself
Q(name, command, target, guard) ==
    [kind |-> "query", name |-> name, command |-> command, check |-> FALSE,
     cleanup |-> "none", target |-> target, guard |-> guard]

\* run_all_tests up to the cleanup: its calls, in the order of the source.
\* target "midi": the call's track_index is midi_track_idx. guard: the `if`
\* the call is under.
Steps == <<
    T("Connection", "get_session_info", FALSE, "none", "none", "always"),
    Q("initial_info", "get_session_info", "none", "always"),
    T("Get session info", "get_session_info", TRUE, "none", "none", "always"),
    T("Get song position", "get_song_position", TRUE, "none", "none", "always"),
    T("Start playback", "start_playback", FALSE, "none", "none", "always"),
    T("Stop playback", "stop_playback", FALSE, "none", "none", "always"),
    T("Set tempo", "set_tempo", FALSE, "none", "none", "always"),
    T("Create MIDI track", "create_midi_track", TRUE, "midi", "none", "always"),
    T("Create audio track", "create_audio_track", TRUE, "audio", "none", "always"),
    T("Set track name", "set_track_name", FALSE, "none", "midi", "always"),
    T("Get track info", "get_track_info", TRUE, "none", "midi", "always"),
    T("Set track volume", "set_track_volume", FALSE, "none", "midi", "always"),
    T("Set track pan", "set_track_pan", FALSE, "none", "midi", "always"),
    T("Set track mute", "set_track_mute", FALSE, "none", "midi", "always"),
    T("Set track solo", "set_track_solo", FALSE, "none", "midi", "always"),
    T("Set track arm", "set_track_arm", FALSE, "none", "midi", "always"),
    T("Get track routing", "get_track_routing", TRUE, "none", "midi", "always"),
    T("Duplicate track", "duplicate_track", TRUE, "dup", "midi", "always"),
    T("Create clip", "create_clip", TRUE, "none", "midi", "always"),
    T("Add notes to clip", "add_notes_to_clip", TRUE, "none", "midi", "always"),
    T("Get clip notes", "get_clip_notes", TRUE, "none", "midi", "always"),
    T("Set clip name", "set_clip_name", FALSE, "none", "midi", "always"),
    T("Set clip loop", "set_clip_loop", TRUE, "none", "midi", "always"),
    T("Duplicate clip", "duplicate_clip", TRUE, "none", "midi", "always"),
    T("Remove notes from clip", "remove_notes_from_clip", FALSE, "none", "midi", "always"),
    T("Replace notes in clip", "replace_notes_in_clip", FALSE, "none", "midi", "always"),
    T("Fire clip", "fire_clip", FALSE, "none", "midi", "always"),
    T("Stop clip", "stop_clip", FALSE, "none", "midi", "always"),
    T("Delete clip", "delete_clip", FALSE, "none", "midi", "always"),
    T("Load instrument", "load_browser_item", FALSE, "none", "midi", "always"),
    Q("track_info", "get_track_info", "midi", "always"),
    T("Get device parameters", "get_device_parameters", TRUE, "none", "midi", "devices"),
    Q("params", "get_device_parameters", "midi", "devices"),
    T("Set device parameter", "set_device_parameter", FALSE, "none", "midi", "params"),
    T("Set device enabled", "set_device_enabled", FALSE, "none", "midi", "devices"),
    T("Set device enabled (re-enable)", "set_device_enabled", FALSE, "none", "midi", "devices"),
    T("Delete device", "delete_device", FALSE, "none", "midi", "devices"),
    T("Get scenes", "get_scenes", TRUE, "none", "none", "always"),
    T("Create scene", "create_scene", TRUE, "scene", "none", "always"),
    T("Set scene name", "set_scene_name", FALSE, "none", "none", "always"),
    T("Fire scene", "fire_scene", FALSE, "none", "none", "always"),
    T("Stop all clips", "stop_all_clips", FALSE, "none", "none", "always"),
    T("Duplicate scene", "duplicate_scene", FALSE, "none", "none", "always"),
    T("Delete scene", "delete_scene", FALSE, "none", "none", "always"),
    T("Delete scene", "delete_scene", FALSE, "none", "none", "always"),
    T("Get master track info", "get_master_track_info", TRUE, "none", "none", "always"),
    T("Set master volume", "set_master_volume", FALSE, "none", "none", "always"),
    T("Get return tracks", "get_return_tracks", TRUE, "none", "none", "always"),
    Q("return_tracks", "get_return_tracks", "none", "always"),
    T("Set track send", "set_track_send", FALSE, "none", "midi", "returns"),
    T("Get browser tree", "get_browser_tree", TRUE, "none", "none", "always"),
    T("Get browser items at path", "get_browser_items_at_path", TRUE, "none", "none", "always"),
    T("Undo", "undo", FALSE, "none", "none", "always"),
    T("Redo", "redo", FALSE, "none", "none", "always") >>

\* The `if` a call is under: `if devices:` (line 260), `if len(params) > 1:`
\* inside it (line 272), `if ... return_count ... > 0:` (line 335)
GuardHolds(s) ==
    CASE s.guard = "always" -> TRUE
      [] s.guard = "devices" -> devices
      [] s.guard = "params" -> devices /\ params
      [] s.guard = "returns" -> returns

\* The track_index of a call (-1: the call has none)
TrackOf(s) == IF s.target = "midi" THEN midi_track_idx ELSE -1

\* The commands that add a track to the session
Creates == {"create_midi_track", "create_audio_track", "duplicate_track"}

\* The session after a command it answered with status success
TracksAfter(command, kind, n) ==
    IF kind = "error" THEN n
    ELSE IF command \in Creates THEN n + 1
    ELSE IF command = "delete_track" THEN n - 1
    ELSE n

\* The responses the session can give to a command: a command on a track it
\* does not have is an error; otherwise an unexpected response is a fault,
\* and one run has at most MaxFaults of them.
Responses(track, check) ==
    IF track >= tracks THEN {"error"}
    ELSE {"ok"} \cup (IF faults < MaxFaults
                       THEN {"error"} \cup (IF check THEN {"nokey"} ELSE {})
                       ELSE {})

IsFault(track, kind) == track < tracks /\ kind # "ok"

Send(name, command, track, kind) ==
    /\ sent' = Append(sent, [name |-> name, command |-> command,
                             track |-> track, kind |-> kind])
    /\ tracks' = TracksAfter(command, kind, tracks)
    /\ faults' = IF IsFault(track, kind) THEN faults + 1 ELSE faults

HarnessIdle ==
    /\ hpc = "idle"
    /\ step = 1
    /\ tests_passed = 0
    /\ tests_failed = 0
    /\ test_results = <<>>
    /\ last_test = NoTest
    /\ any_false = FALSE
    /\ initial_track_count = 0
    /\ current_track_count = 0
    /\ midi_track_idx = 0
    /\ devices = FALSE
    /\ params = FALSE
    /\ returns = FALSE
    /\ del_i = 0
    /\ tracks = 0
    /\ tracks0 = 0
    /\ created = {}
    /\ sent = <<>>
    /\ faults = 0
    /\ summary = FALSE
    /\ exit_code = -1

\* main() up to tester.run_all_tests(), on a session of 0..MaxTracks tracks
HarnessInit ==
    /\ hpc = "run"
    /\ step = 1
    /\ tests_passed = 0
    /\ tests_failed = 0
    /\ test_results = <<>>
    /\ last_test = NoTest
    /\ any_false = FALSE
    /\ initial_track_count = 0
    /\ current_track_count = 0
    /\ midi_track_idx = 0
    /\ devices = FALSE
    /\ params = FALSE
    /\ returns = FALSE
    /\ del_i = 0
    /\ tracks \in 0..MaxTracks
    /\ tracks0 = tracks
    /\ created = {}
    /\ sent = <<>>
    /\ faults = 0
    /\ summary = FALSE
    /\ exit_code = -1

AbortsOnAnyFailure(s, passed) == ~passed

\* `if not self.test("Connection", ...): ... return` (lines 96-101)
Aborts(s, passed) == s = 1 /\ ~passed

\* midi_result.get('result', {}).get('index', 0) if midi_result else 0:
\* store_midi_track runs only for a passed test, whose result has the index
\* of the new track, the last of the session
MidiTrackIdx(passed, index) == IF passed THEN index ELSE 0

\* One self.test(...) of the sequence
RunTest ==
    /\ UNCHANGED <<playerVars, clientVars>>
    /\ hpc = "run"
    /\ step <= Len(Steps)
    /\ Steps[step].kind = "test"
    /\ GuardHolds(Steps[step])
    /\ LET s == Steps[step] IN
       \E kind \in Responses(TrackOf(s), s.check) :
          LET call == TestCall(s.name, Status(kind), s.check, CheckOk(kind),
                               s.cleanup # "none") IN
          /\ Send(s.name, s.command, TrackOf(s), kind)
          /\ Record(s.name, -1, Status(kind), s.check, CheckOk(kind))
          /\ last_test' = call
          /\ IF s.command = "create_midi_track"
             THEN /\ midi_track_idx' = MidiTrackIdx(call.cleanup_calls = 1, tracks)
                  /\ created' = IF call.cleanup_calls = 1
                                THEN created \cup {tracks} ELSE created
             ELSE UNCHANGED <<midi_track_idx, created>>
          /\ IF Aborts(step, call.returned)
             THEN hpc' = "returned" /\ UNCHANGED step
             ELSE step' = step + 1 /\ UNCHANGED hpc
    /\ UNCHANGED <<initial_track_count, current_track_count, devices, params,
                   returns, del_i, tracks0, summary, exit_code>>

\* One self.send_command(...) of run_all_tests and the local it sets
RunQuery ==
    /\ UNCHANGED <<playerVars, clientVars>>
    /\ hpc = "run"
    /\ step <= Len(Steps)
    /\ Steps[step].kind = "query"
    /\ GuardHolds(Steps[step])
    /\ LET s == Steps[step] IN
       \E kind \in Responses(TrackOf(s), TRUE) :
          /\ Send(s.name, s.command, TrackOf(s), kind)
          /\ CASE s.name = "initial_info" ->
                    /\ initial_track_count' = IF kind = "ok" THEN tracks ELSE 0
                    /\ UNCHANGED <<devices, params, returns>>
               [] s.name = "track_info" ->
                    /\ devices' \in (IF kind = "ok" THEN BOOLEAN ELSE {FALSE})
                    /\ UNCHANGED <<initial_track_count, params, returns>>
               [] s.name = "params" ->
                    /\ params' \in (IF kind = "ok" THEN BOOLEAN ELSE {FALSE})
                    /\ UNCHANGED <<initial_track_count, devices, returns>>
               [] s.name = "return_tracks" ->
                    /\ returns' \in (IF kind = "ok" THEN BOOLEAN ELSE {FALSE})
                    /\ UNCHANGED <<initial_track_count, devices, params>>
    /\ step' = step + 1
    /\ UNCHANGED <<hpc, tests_passed, tests_failed, test_results, last_test,
                   any_false, current_track_count, midi_track_idx, del_i,
                   tracks0, created, summary, exit_code>>

\* A call under an `if` that does not hold
SkipStep ==
    /\ UNCHANGED <<playerVars, clientVars>>
    /\ hpc = "run"
    /\ step <= Len(Steps)
    /\ ~GuardHolds(Steps[step])
    /\ step' = step + 1
    /\ UNCHANGED <<hpc, tests_passed, tests_failed, test_results, last_test,
                   any_false, initial_track_count, current_track_count,
                   midi_track_idx, devices, params, returns, del_i, tracks,
                   tracks0, created, sent, faults, summary, exit_code>>

\* current_info = self.send_command("get_session_info") (lines 359-360)
CurrentInfo ==
    /\ UNCHANGED <<playerVars, clientVars>>
    /\ hpc = "run"
    /\ step = Len(Steps) + 1
    /\ \E kind \in Responses(-1, TRUE) :
          /\ Send("current_info", "get_session_info", -1, kind)
          /\ current_track_count' = IF kind = "ok" THEN tracks ELSE 0
    /\ hpc' = "cleanup"
    /\ UNCHANGED <<step, tests_passed, tests_failed, test_results, last_test,
                   any_false, initial_track_count, midi_track_idx, devices,
                   params, returns, del_i, tracks0, created, summary, exit_code>>

\* tracks_to_delete = current_track_count - initial_track_count
TracksToDelete(current, initial) == current - initial

TrackIdxAscending(current, i) == initial_track_count + i

\* track_idx = current_track_count - 1 - i
TrackIdx(current, i) == current - 1 - i

\* One iteration of `for i in range(tracks_to_delete)`
DeleteTrack ==
    /\ UNCHANGED <<playerVars, clientVars>>
    /\ hpc = "cleanup"
    /\ del_i < TracksToDelete(current_track_count, initial_track_count)
    /\ LET track_idx == TrackIdx(current_track_count, del_i) IN
       \E kind \in Responses(track_idx, FALSE) :
          /\ Send("Delete test track", "delete_track", track_idx, kind)
          /\ Record("Delete test track", track_idx, Status(kind), FALSE, CheckOk(kind))
          /\ last_test' = TestCall("Delete test track", Status(kind), FALSE,
                                   CheckOk(kind), FALSE)
    /\ del_i' = del_i + 1
    /\ UNCHANGED <<hpc, step, initial_track_count, current_track_count,
                   midi_track_idx, devices, params, returns, tracks0, created,
                   summary, exit_code>>

\* self.print_summary(), the last statement of run_all_tests
PrintSummary ==
    /\ UNCHANGED <<playerVars, clientVars>>
    /\ hpc = "cleanup"
    /\ del_i >= TracksToDelete(current_track_count, initial_track_count)
    /\ summary' = TRUE
    /\ hpc' = "returned"
    /\ UNCHANGED <<step, tests_passed, tests_failed, test_results, last_test,
                   any_false, initial_track_count, current_track_count,
                   midi_track_idx, devices, params, returns, del_i, tracks,
                   tracks0, created, sent, faults, exit_code>>

ExitCodeOfPassed(failed) == IF tests_passed > 0 THEN 0 ELSE 1

\* 0 if tester.tests_failed == 0 else 1
ExitCode(failed) == IF failed = 0 THEN 0 ELSE 1

\* sys.exit(...) of main
Exit ==
    /\ UNCHANGED <<playerVars, clientVars>>
    /\ hpc = "returned"
    /\ exit_code' = ExitCode(tests_failed)
    /\ hpc' = "exited"
    /\ UNCHANGED <<step, tests_passed, tests_failed, test_results, last_test,
                   any_false, initial_track_count, current_track_count,
                   midi_track_idx, devices, params, returns, del_i, tracks,
                   tracks0, created, sent, faults, summary>>

HarnessNext ==
    \/ RunTest
    \/ RunQuery
    \/ SkipStep
    \/ CurrentInfo
    \/ DeleteTrack
    \/ PrintSummary
    \/ Exit

----------------------------------------------------------------------------
(* AbletonMCPTester.test called with any response and any callbacks.        *)
(* "nondict": send_command returned a JSON value that is no object, so      *)
(* result.get (line 57) raises. A check_func returns true or false or       *)
(* raises; a cleanup_func returns or raises. Whatever is raised inside the  *)
(* try block is caught at line 82.                                          *)

Statuses == {"success", "error", "nondict"}

Checks == {"none", "true", "false", "raise"}

Cleanups == {"none", "return", "raise"}

Entry(name, status, error) ==
    [name |-> name, arg |-> -1, status |-> status, error |-> error]

\* lines 82-87: the entry of the except clause
ExceptEntry(name) == Entry(name, "failed", "str(e)")

\* test(): the entries one call appends to test_results, in order
TestAppends(name, status, check, cleanup) ==
    IF status = "nondict" \/ (status = "success" /\ check = "raise")
    THEN <<ExceptEntry(name)>>
    ELSE LET v == Verdict(status, check # "none", check = "true")
             e == Entry(name, v, ErrorText(status, check # "none", check = "true"))
         IN  IF v = "passed" /\ cleanup = "raise"
             THEN <<e, ExceptEntry(name)>>
             ELSE <<e>>

CountStatus(seq, st) == Cardinality({i \in 1..Len(seq) : seq[i].status = st})

\* test(): True from line 80, False from lines 62, 70 and 87
TestReturns(status, check, cleanup) ==
    LET app == TestAppends("", status, check, cleanup) IN
    Len(app) = 1 /\ app[1].status = "passed"

UnitInit ==
    /\ hpc = "test"
    /\ step = 1
    /\ tests_passed = 0
    /\ tests_failed = 0
    /\ test_results = <<>>
    /\ last_test = NoTest
    /\ any_false = FALSE
    /\ initial_track_count = 0
    /\ current_track_count = 0
    /\ midi_track_idx = 0
    /\ devices = FALSE
    /\ params = FALSE
    /\ returns = FALSE
    /\ del_i = 0
    /\ tracks = 0
    /\ tracks0 = 0
    /\ created = {}
    /\ sent = <<>>
    /\ faults = 0
    /\ summary = FALSE
    /\ exit_code = -1

\* One call of test()
TestInvocation ==
    /\ UNCHANGED <<playerVars, clientVars>>
    /\ hpc = "test"
    /\ Len(sent) < MaxTests
    /\ \E status \in Statuses, check \in Checks, cleanup \in Cleanups :
          LET app == TestAppends("test", status, check, cleanup)
              checked == status = "success" /\ check # "none"
              cleaned == /\ status = "success"
                         /\ check \in {"none", "true"}
                         /\ cleanup # "none"
          IN
          /\ sent' = Append(sent, [name |-> "test", command |-> "command",
                                   track |-> -1, kind |-> status])
          /\ test_results' = test_results \o app
          /\ tests_passed' = tests_passed + CountStatus(app, "passed")
          /\ tests_failed' = tests_failed + CountStatus(app, "failed")
          /\ last_test' = [name |-> "test", status |-> status,
                           has_check |-> check # "none",
                           check_ok |-> check = "true",
                           has_cleanup |-> cleanup # "none",
                           check_calls |-> IF checked THEN 1 ELSE 0,
                           cleanup_calls |-> IF cleaned THEN 1 ELSE 0,
                           verdict |-> app[Len(app)].status,
                           returned |-> TestReturns(status, check, cleanup)]
          /\ any_false' = (any_false \/ ~TestReturns(status, check, cleanup))
    /\ UNCHANGED <<hpc, step, initial_track_count, current_track_count,
                   midi_track_idx, devices, params, returns, del_i, tracks,
                   tracks0, created, faults, summary, exit_code>>

----------------------------------------------------------------------------
Init == PlayerInit /\ ClientIdle /\ HarnessIdle

Next == PlayerNext

\* run_arrangement
Spec == Init /\ [][Next]_vars

InitClient == ClientInit /\ PlayerIdle /\ HarnessIdle

NextClient == ClientNext

\* send_command
SpecClient == InitClient /\ [][NextClient]_vars

\* A position feed that always answers, keeps is_playing true and, from some
\* poll on, reports a bar at or past the bar of the last cue: the calls of the
\* run return with status success, and the polls after the first
\* MaxPolls - (n - 1) report such a bar.
LastBar == arrangement[Len(arrangement)].bar

FeedIsHigh == NPolls >= MaxPolls - (Len(arrangement) - 1)

LiveStart == Start /\ pc' = "settle" /\ failed_call' = 0

LiveFireFirst == FireFirst /\ pc' = "loop" /\ failed_call' = 0

LivePoll ==
    /\ Poll
    /\ pc' = "polled"
    /\ failed_call' = 0
    /\ FeedIsHigh => current_bar' >= LastBar

LiveFireDue == FireDue /\ pc' = "loop" /\ failed_call' = 0

InitLive == Init /\ Len(input_arrangement) > 0

NextLive ==
    \/ LiveStart
    \/ LiveFireFirst
    \/ LivePoll
    \/ LiveFireDue
    \/ Complete

\* run_arrangement under that feed; the process keeps running
SpecLive == InitLive /\ [][NextLive]_vars /\ WF_vars(NextLive)

InitHarness == HarnessInit /\ PlayerIdle /\ ClientIdle

NextHarness == HarnessNext

\* test_ableton_mcp.py: main, run_all_tests, test
SpecHarness == InitHarness /\ [][NextHarness]_vars

InitTest == UnitInit /\ PlayerIdle /\ ClientIdle

NextTest == TestInvocation

\* AbletonMCPTester.test on its own
SpecTest == InitTest /\ [][NextTest]_vars

----------------------------------------------------------------------------
(* Properties of run_arrangement *)

\* The fire_scene calls of the run, in order
Fires == SelectSeq(cmds, LAMBDA c : c.type = "fire_scene")

Count(seq, x) == Cardinality({i \in 1..Len(seq) : seq[i] = x})

\* b is a of rearranged, in ascending order of the bar number
IsSortedArrangementOf(b, a) ==
    /\ Len(b) = Len(a)
    /\ \A i \in 1..Len(a) : Count(b, a[i]) = Count(a, a[i])
    /\ \A i \in 1..(Len(b) - 1) : b[i].bar <= b[i + 1].bar

Started == cmds # <<>>

\* C1: the fire_scene commands issued are a prefix of the arrangement sorted
\* ascending by bar number: the k-th fire_scene carries the scene of the k-th
\* sorted cue, so no cue is fired twice and none after a cue that follows it.
C1_FiresArePrefixOfSorted ==
    Started =>
        /\ IsSortedArrangementOf(arrangement, input_arrangement)
        /\ Len(Fires) <= Len(arrangement)
        /\ \A k \in 1..Len(Fires) :
            /\ Fires[k].cue = k
            /\ Fires[k].scene = arrangement[k].scene

C1_Witness ==
    /\ Len(Fires) = 3
    /\ input_arrangement # arrangement
    /\ \E i \in 1..Len(input_arrangement) :
        input_arrangement[i].scene # arrangement[i].scene

\* C2, as the specification states it: when a run on a non-empty arrangement
\* has ended (here: in Complete or Stopped, no call having failed and no
\* interrupt having arrived), every cue has been fired exactly once, in
\* strictly ascending bar order.
C2_AllFiredOnceWhenEnded ==
    (/\ pc = "exited"
     /\ final \in {"Complete", "Stopped"}
     /\ failed_call = 0
     /\ Len(arrangement) > 0) =>
        /\ \A k \in 1..Len(arrangement) :
            Cardinality({i \in 1..Len(Fires) : Fires[i].cue = k}) = 1
        /\ \A i \in 1..(Len(Fires) - 1) :
            arrangement[Fires[i].cue].bar < arrangement[Fires[i + 1].cue].bar

DistinctBars(a) == \A i, j \in 1..Len(a) : i # j => a[i].bar # a[j].bar

\* C2, amended: fire_scene is issued for the cues in ascending bar order
\* (strictly ascending when the bar numbers are distinct) and never twice for
\* one cue; when the run has ended in Complete, it has been issued exactly once
\* for every cue of the arrangement.
C2_AllFiredOnceWhenComplete ==
    Len(input_arrangement) > 0 =>
        /\ \A k \in 1..Len(arrangement) :
            Cardinality({i \in 1..Len(Fires) : Fires[i].cue = k}) <= 1
        /\ \A i \in 1..(Len(Fires) - 1) :
            /\ arrangement[Fires[i].cue].bar <= arrangement[Fires[i + 1].cue].bar
            /\ DistinctBars(input_arrangement) =>
                  arrangement[Fires[i].cue].bar < arrangement[Fires[i + 1].cue].bar
        /\ final = "Complete" =>
            /\ IsSortedArrangementOf(arrangement, input_arrangement)
            /\ \A k \in 1..Len(arrangement) :
                Cardinality({i \in 1..Len(Fires) : Fires[i].cue = k}) = 1

C2_Witness ==
    /\ final = "Complete"
    /\ Len(arrangement) = 3
    /\ input_arrangement # arrangement
    /\ Len(Fires) = 3

\* The calls made after the poll that jumped past several pending cues
AfterJump == SubSeq(cmds, jump.at + 1, Len(cmds))
FiresAfterJump == SelectSeq(AfterJump, LAMBDA c : c.type = "fire_scene")

\* C3, as the specification states it: after a poll that jumped past the bars
\* of two pending cues, the next cue fired is the later of the two, and the
\* earlier one is never fired in that run.
C3_JumpSkipsEarlierCue ==
    jump.idx # 0 =>
        /\ \A i \in 1..Len(FiresAfterJump) : FiresAfterJump[i].cue # jump.idx
        /\ Len(FiresAfterJump) > 0 => FiresAfterJump[1].cue = jump.idx + 1

\* C3, amended: after such a poll the next cue fired is the earlier of the two
\* pending cues, fired in the iteration of that poll; the later one is not
\* skipped either: it is fired next, and only after a further poll.
C3_JumpFiresEarliestPending ==
    jump.idx # 0 =>
        /\ Len(FiresAfterJump) > 0 =>
            /\ FiresAfterJump[1].cue = jump.idx
            /\ AfterJump[1] = FiresAfterJump[1]
        /\ Len(FiresAfterJump) > 1 =>
            /\ FiresAfterJump[2].cue = jump.idx + 1
            /\ Len(AfterJump) >= 3
            /\ AfterJump[2].type = "get_song_position"
        /\ (pc = "loop" /\ Len(FiresAfterJump) = 1) => current_index = jump.idx

C3_Witness ==
    /\ jump.idx # 0
    /\ Len(FiresAfterJump) = 2
    /\ arrangement[jump.idx].scene # arrangement[jump.idx + 1].scene

\* C4: once a get_song_position poll has reported is_playing false (or no
\* is_playing), no get_song_position and no fire_scene follows it in the run.
C4_NothingAfterNotPlaying ==
    \A i \in 1..Len(cmds) :
        cmds[i].playing = "no" =>
            \A j \in (i + 1)..Len(cmds) :
                cmds[j].type \notin {"get_song_position", "fire_scene"}

C4_WitnessStoppedWithDueCue ==
    /\ pc = "exited"
    /\ Len(cmds) > 0
    /\ cmds[Len(cmds)].playing = "no"
    /\ current_index + 1 < Len(arrangement)
    /\ current_bar >= arrangement[current_index + 1].bar

\* C5: a failed fire_scene or get_song_position call (one that raised, or was
\* answered with status "error") ends the run as an error: no fire_scene
\* follows it, the pointer stays at the cue whose firing failed, and the run
\* ends neither in Complete nor in Stopped.
C5_FailedCallEndsRun ==
    failed_call # 0 =>
        /\ \A j \in (failed_call + 1)..Len(cmds) : cmds[j].type # "fire_scene"
        /\ cmds[failed_call].type = "fire_scene" =>
              current_index < cmds[failed_call].cue
        /\ final \notin {"Complete", "Stopped"}

NStops == Cardinality({i \in 1..Len(cmds) : cmds[i].type = "stop_playback"})

\* C9: a KeyboardInterrupt that arrives after start_playback has been issued
\* and before Complete or Stopped makes the run issue exactly one
\* stop_playback and exit.
C9_InterruptStopsPlayback ==
    (pc = "exited" /\ interrupt_at \notin {"none", "NotStarted", "start_playback"}) =>
        /\ NStops = 1
        /\ cmds[Len(cmds)].type = "stop_playback"

\* C10: the first command of a run is start_playback, the second is the
\* fire_scene of the first cue of the sorted arrangement, whatever its bar;
\* every get_song_position comes after both.
C10_StartThenFirstCue ==
    /\ Len(cmds) >= 1 => cmds[1].type = "start_playback"
    /\ Len(cmds) >= 2 =>
        /\ cmds[2].type = "fire_scene"
        /\ cmds[2].cue = 1
        /\ cmds[2].scene = arrangement[1].scene
        /\ \A k \in 1..Len(arrangement) : arrangement[1].bar <= arrangement[k].bar
    /\ \A i \in 1..Len(cmds) :
        cmds[i].type \in {"get_song_position", "fire_scene", "stop_playback"} => i >= 2
    /\ \A i \in 1..Len(cmds) : cmds[i].type = "get_song_position" => i >= 3
    /\ pc \in {"loop", "polled", "handler"} => Len(cmds) >= 2

C10_WitnessLateFirstCue ==
    /\ Len(cmds) >= 3
    /\ cmds[3].type = "get_song_position"
    /\ arrangement[1].bar > 1
    /\ input_arrangement[1] # arrangement[1]

----------------------------------------------------------------------------
(* Properties of the two send_command *)

\* b parses as JSON
ParsesAsJson(b) == Loads(b).kind = "return"
IsJsonObject(b) == ParsesAsJson(b) /\ Loads(b).value[1] = "obj"

\* C6, as the specification states it: in both clients, when the peer closes
\* the connection while the buffer is empty or is not JSON, the call ends by
\* raising a decode error to its caller.
C6_CloseRaisesDecodeError ==
    (ended_by = "closed" /\ ~ParsesAsJson(buf)) =>
        /\ cpc = "raised"
        /\ ret.kind = "raise"
        /\ ret.value[2] = "JSONDecodeError"

\* C6, amended: when the peer closes the connection while the buffer is empty
\* or is not JSON, neither client hangs and the socket is closed; the player's
\* send_command raises a decode error to its caller; the harness's
\* send_command raises nothing: it returns an error response, made by its own
\* except clause from the UnboundLocalError of `return result`.
C6_CloseEndsCallWithError ==
    (ended_by = "closed" /\ ~ParsesAsJson(buf)) =>
        /\ cpc \in {"raised", "returned"}
        /\ sock = "closed"
        /\ impl = "player" =>
            /\ cpc = "raised"
            /\ ret = Raises("JSONDecodeError")
        /\ impl = "harness" =>
            /\ cpc = "returned"
            /\ ret = ErrorResponse("UnboundLocalError")

C6_WitnessHarnessClosedOnGarbage ==
    /\ ended_by = "closed"
    /\ impl = "harness"
    /\ buf # <<>>
    /\ ~ParsesAsJson(buf)
    /\ cpc = "returned"

\* C7: a response that is a JSON object, delivered in one read or split at any
\* position into two reads, is returned as the value of the whole response:
\* the call never ends otherwise, and it has returned once all is delivered.
C7_SplitParsesLikeWhole ==
    (/\ IsJsonObject(wire)
     /\ ended_by \in {"none", "data"}
     /\ Len(reads) \in {1, 2}) =>
        /\ cpc \in {"raised", "returned"} =>
            /\ ret.kind = "return"
            /\ ret.value[1] = "obj"
            /\ ret.value = Loads(wire).value
        /\ delivered = Len(wire) => cpc = "returned"

\* C8: a call that has returned a value (after a parsed response, a peer
\* close, a read timeout, a connect or a read failure) has closed its
\* connection, and no connection of an earlier call is open when the next
\* command is sent.
C8_ReturnedCallsClosedConnection ==
    /\ (/\ cpc = "returned"
        /\ ended_by \in {"data", "closed", "timeout", "error", "connect"}) =>
            sock # "connected"
    /\ leaked = 0

----------------------------------------------------------------------------
(* Properties of the polling loop *)

LastCmd == cmds'[Len(cmds')]

DueAtPoll == is_playing /\ current_bar >= arrangement[current_index + 1].bar

\* C15: an iteration of the polling loop issues one get_song_position and at
\* most one fire_scene; the pointer advances by exactly one in an iteration
\* whose poll reported is_playing true and a bar at or past the bar of the
\* pending cue, and is unchanged in every other iteration; a cue other than
\* the first is fired only right after a poll that reported is_playing true
\* and a bar at or past that cue's bar.
C15_OnePollAtMostOneFire ==
    [][ /\ Len(cmds') <= Len(cmds) + 1
        /\ (pc = "loop" /\ cmds' # cmds) =>
              /\ cmds' = Append(cmds, LastCmd)
              /\ LastCmd.type = "get_song_position"
              /\ current_index' = current_index
        /\ (pc = "polled" /\ cmds' # cmds) =>
              /\ cmds' = Append(cmds, LastCmd)
              /\ LastCmd.type = "fire_scene"
        /\ (pc = "polled" /\ pc' = "loop") =>
              IF DueAtPoll
              THEN /\ cmds' # cmds
                   /\ LastCmd.cue = current_index + 1
                   /\ current_index' = current_index + 1
              ELSE /\ cmds' = cmds
                   /\ current_index' = current_index
        /\ (pc \in {"loop", "polled"} /\ current_index' # current_index) =>
              pc = "polled" /\ pc' = "loop" /\ DueAtPoll
        /\ (cmds' # cmds /\ LastCmd.type = "fire_scene" /\ LastCmd.cue > 1) =>
              /\ pc = "polled"
              /\ cmds[Len(cmds)].type = "get_song_position"
              /\ cmds[Len(cmds)].playing = "yes"
              /\ is_playing
              /\ current_bar >= arrangement[LastCmd.cue].bar
      ]_vars

C15_WitnessIdleThenFiringIteration ==
    \E i \in 1..(Len(cmds) - 2) :
        /\ cmds[i].type = "get_song_position"
        /\ cmds[i + 1].type = "get_song_position"
        /\ cmds[i + 2].type = "fire_scene"
        /\ cmds[i + 2].cue = 2

FiredOnce(k) == Cardinality({i \in 1..Len(Fires) : Fires[i].cue = k}) = 1

\* C16: under a feed that always answers, keeps is_playing true and from
\* some poll on reports a bar at or past the bar of the last cue, the run
\* eventually has fired every cue, with the pointer at the length of the
\* arrangement and the loop ended in Complete, after at least n - 1 polls
\* for n cues.
C16_FeedPastLastCueCompletes ==
    <>( /\ final = "Complete"
        /\ current_index = Len(arrangement)
        /\ \A k \in 1..Len(arrangement) : FiredOnce(k)
        /\ NPolls >= Len(arrangement) - 1 )

C16_WitnessCompleteAfterLowPoll ==
    /\ final = "Complete"
    /\ Len(arrangement) = MaxCues
    /\ NPolls = MaxPolls
    /\ \A k \in 1..Len(arrangement) : FiredOnce(k)

\* C17: Complete and Stopped exclude each other: the completion report is
\* emitted only in a run that has fired every cue, and a run that left the
\* loop on a poll that reported is_playing false, with cues pending, does not
\* emit it.
C17_CompletionReportOnlyWhenAllFired ==
    /\ "complete" \in report => \A k \in 1..Len(arrangement) : FiredOnce(k)
    /\ (final = "Stopped" /\ current_index < Len(arrangement)) =>
          "complete" \notin report

----------------------------------------------------------------------------
(* Properties of send_command, continued *)

\* The buffer before the last read
BufBeforeLastRead == SubSeq(buf, 1, Len(buf) - reads[Len(reads)])

\* C18, as stated: in both clients a call whose read loop is left by a
\* timeout (or by the peer's close) returns no response: it ends in a decode
\* error raised to the caller.
C18_TimeoutRaisesDecodeError ==
    ended_by \in {"timeout", "closed"} =>
        cpc = "raised" /\ ret = Raises("JSONDecodeError")

\* C18: a call of the player's client whose read loop is left by a timeout
\* or by the peer's close makes a last parse of the buffer, which fails: it
\* raises a decode error. The harness's client makes no such parse and
\* raises nothing: it returns the error response of its except clause. In
\* both clients a parsed response is returned only from inside the read
\* loop, right after the read that made the buffer parse.
C18_TimeoutEndsCallWithError ==
    /\ ended_by \in {"timeout", "closed"} =>
          /\ impl = "player" => cpc = "raised" /\ ret = Raises("JSONDecodeError")
          /\ impl = "harness" =>
                /\ cpc = "returned"
                /\ ret = ErrorResponse(IF ended_by = "timeout" THEN "timeout"
                                       ELSE "UnboundLocalError")
    /\ (cpc = "returned" /\ ret.value[1] # "error_response") =>
          /\ ended_by = "data"
          /\ Len(reads) > 0
          /\ ret = Loads(buf)
          /\ ~ParsesAsJson(BufBeforeLastRead)

C18_WitnessPlayerTimeoutOnPartial ==
    /\ ended_by = "timeout"
    /\ impl = "player"
    /\ buf # <<>>
    /\ cpc = "raised"

----------------------------------------------------------------------------
(* Properties of the test harness *)

Finished == hpc \in {"returned", "exited"}

\* C11: the harness exits with code 0 exactly when no call of test() of the
\* run returned False; any failed test, the Connection test included, gives
\* exit code 1.
C11_ExitZeroIffAllPassed ==
    hpc = "exited" => /\ exit_code \in {0, 1}
                      /\ exit_code = 0 <=> ~any_false

C11_WitnessOneFailure ==
    hpc = "exited" /\ exit_code = 1 /\ tests_failed = 1 /\ tests_passed > 1

LastResult == test_results[Len(test_results)]

Names(seq) == [i \in 1..Len(seq) |-> seq[i].name]

IsDue(s) == s.kind = "test" /\ GuardHolds(s)

IsSequenceTest(e) == e.name # "Delete test track"

\* The tests of the sequence whose `if` holds, and the tests that were run
DueTests == Names(SelectSeq(Steps, IsDue))

RunTests == Names(SelectSeq(test_results, IsSequenceTest))

\* C13 as stated: whichever test fails, the Connection test included, every
\* later test of the sequence is run and the summary is printed.
C13_FailedTestNeverAborts ==
    Finished => summary /\ RunTests = DueTests

\* C13: a failed test other than the Connection test does not abort the
\* run: every later test of the sequence whose condition holds is run, and
\* the summary is printed. A failed Connection test ends the run at once,
\* without any later test and without the summary.
C13_OnlyConnectionAborts ==
    Finished =>
        IF test_results[1].status = "failed"
        THEN Len(test_results) = 1 /\ ~summary
        ELSE summary /\ RunTests = DueTests

C13_WitnessFailedCreate ==
    /\ Finished /\ summary
    /\ \E k \in 1..Len(test_results) :
          test_results[k].name = "Create MIDI track" /\ test_results[k].status = "failed"

IsDelete(e) == e.command = "delete_track"

Deletes == SelectSeq(sent, IsDelete)

QueryOk(name) == \E k \in 1..Len(sent) : sent[k].name = name /\ sent[k].kind = "ok"

\* C14: the cleanup sends delete_track for the indices
\* current_track_count - 1 down to initial_track_count, each once, in
\* descending order; when both get_session_info queries succeed, every
\* deletion succeeds and the session has at least as many tracks as before,
\* the session ends with the track count recorded before testing.
C14_CleanupDeletesDescending ==
    (Finished /\ summary) =>
        LET n == IF current_track_count > initial_track_count
                 THEN current_track_count - initial_track_count ELSE 0 IN
        /\ Len(Deletes) = n
        /\ \A k \in 1..n : Deletes[k].track = current_track_count - k
        /\ ( /\ QueryOk("initial_info") /\ QueryOk("current_info")
             /\ current_track_count >= initial_track_count
             /\ \A k \in 1..n : Deletes[k].kind = "ok" )
           => tracks = initial_track_count

C14_WitnessThreeDeleted ==
    /\ Finished /\ summary
    /\ QueryOk("initial_info") /\ QueryOk("current_info")
    /\ Len(Deletes) = 3
    /\ \A k \in 1..3 : Deletes[k].kind = "ok"
    /\ initial_track_count = 1
    /\ tracks = 1

\* C19: the cleanup never deletes a track the session had before the run:
\* every delete_track index is at least the number of tracks the session
\* had when the harness started, also when a get_session_info query fails
\* or has no track_count.
C19_DeletesOnlyCreatedTracks ==
    \A k \in 1..Len(Deletes) : Deletes[k].track >= tracks0

\* The commands of run_all_tests that change the track they address
Modifying == {"set_track_name", "set_track_volume", "set_track_pan",
              "set_track_mute", "set_track_solo", "set_track_arm",
              "duplicate_track", "create_clip", "add_notes_to_clip",
              "set_clip_name", "set_clip_loop", "duplicate_clip",
              "remove_notes_from_clip", "replace_notes_in_clip", "fire_clip",
              "stop_clip", "delete_clip", "load_browser_item",
              "set_device_parameter", "set_device_enabled", "delete_device",
              "set_track_send"}

\* C20: every track-modifying command addressed by midi_track_idx goes to an
\* index that a create_midi_track test of the same run returned, so that no
\* such command reaches a track that existed before the run, also when the
\* "Create MIDI track" test fails.
C20_TrackCommandsTargetCreatedTrack ==
    \A k \in 1..Len(sent) :
        (sent[k].command \in Modifying /\ sent[k].track >= 0)
            => sent[k].track \in created

\* C21: a call of test() appends exactly one entry to test_results and adds
\* one to exactly one of tests_passed and tests_failed, and returns True
\* exactly when that entry is "passed"; so tests_passed + tests_failed is the
\* length of test_results, tests_passed the number of its "passed" entries
\* and tests_failed the number of its "failed" entries, also when the check
\* predicate or the cleanup callback raises.
C21_OneEntryPerTest ==
    [][ /\ test_results' # test_results =>
              /\ Len(test_results') = Len(test_results) + 1
              /\ tests_passed' >= tests_passed
              /\ tests_failed' >= tests_failed
              /\ tests_passed' + tests_failed' = tests_passed + tests_failed + 1
              /\ last_test'.returned <=>
                    test_results'[Len(test_results')].status = "passed"
        /\ tests_passed' + tests_failed' = Len(test_results')
        /\ tests_passed' = CountStatus(test_results', "passed")
        /\ tests_failed' = CountStatus(test_results', "failed")
      ]_vars

====
